---- MODULE Spec2Model ----
(***************************************************************************)
(* Change-making with the fixed denominations [50, 25, 10, 5, 2, 1]:       *)
(* find_coins_greedy and find_min_coins of task.py, modelled step by step. *)
(* An invocation is a call (function, argument, position) with a frame of  *)
(* locals; a step is one loop iteration of the function's code.            *)
(***************************************************************************)
EXTENDS Integers, Sequences, FiniteSets, TLC

VARIABLES calls, frames, overlapped

vars == <<calls, frames, overlapped>>

(* ------------------------------ bounds -------------------------------- *)

\* Largest amount of a single (sequential) invocation.
MaxAmount == 113
\* Largest amount of an invocation that runs concurrently with others.
MaxConcAmount == 3
\* Number of invocations that run concurrently.
NumConcCalls == 2

(* ------------------------- values and helpers -------------------------- *)

\* float('inf'), the "unreachable" cost.
Inf == -1

\* x + 1 on ints and float('inf'): inf + 1 is inf.
AddOne(x) == IF x = Inf THEN Inf ELSE x + 1

\* a < b on ints and float('inf'): nothing is above inf, inf is not below inf.
Less(a, b) == IF a = Inf THEN FALSE ELSE IF b = Inf THEN TRUE ELSE a < b

\* The empty dict {}.
EmptyMap == [k \in {} |-> 0]

\* d.get(k, default)
Get(d, k, default) == IF k \in DOMAIN d THEN d[k] ELSE default

\* d[k] = v
Put(d, k, v) == [x \in (DOMAIN d) \cup {k} |-> IF x = k THEN v ELSE d[x]]

\* The kinds of invocation: the two functions, and find_coins_greedy with
\* its early exit (lines 55-56) removed.
GreedyKinds == {"greedy", "greedy_nobreak"}
Kinds == GreedyKinds \cup {"min"}

\* Whether the greedy loop of this kind has the early exit.
EarlyExit(kind) == kind = "greedy"

\* The frame a call's locals live in: its own. (SharedFrame: the locals kept
\* in one module-level place instead.)
SharedFrame(p) == 1
Frame(p) == p

(* --------------------------- find_coins_greedy ------------------------- *)
\* Beside a definition stand the slips it is checked against: `amount <= 0`
\* for the validation, a denomination missing from the list, `remaining -
\* coin` for the remainder.

GreedyInvalidOrZero(amount) == amount <= 0
GreedyInvalid(amount) == amount < 0

GreedyCoinsNoTwo == <<50, 25, 10, 5, 1>>
GreedyCoinsNoOne == <<50, 25, 10, 5, 2>>
GreedyCoins == <<50, 25, 10, 5, 2, 1>>

GreedyCount(remaining, coin) == remaining \div coin

GreedyRestMinusCoin(remaining, coin) == remaining - coin
GreedyRest(remaining, coin) == remaining % coin

\* Lines 46-53: one denomination of the greedy loop.
GreedyBody(f, coin) ==
    IF f.remaining >= coin
    THEN LET count == GreedyCount(f.remaining, coin)
         IN  [f EXCEPT !.result = IF count > 0 THEN Put(f.result, coin, count)
                                  ELSE f.result,
                       !.remaining = GreedyRest(f.remaining, coin)]
    ELSE f

(* ----------------------------- find_min_coins -------------------------- *)
\* The slips here: dp[0] left at infinity, `coin < i` for the fit test, and
\* `<=` or no test at all for the improvement test.

MinInvalid(amount) == amount < 0

DpCoins == <<50, 25, 10, 5, 2, 1>>

InitDpNoBase(amount) == [j \in 0..amount |-> Inf]
InitDp(amount) == [j \in 0..amount |-> IF j = 0 THEN 0 ELSE Inf]

InitLastCoin(amount) == [j \in 0..amount |-> 0]

FitsStrictly(coin, i) == coin < i
Fits(coin, i) == coin <= i

AlwaysBetter(cand, cur) == TRUE
BetterOrEqual(cand, cur) == Less(cand, cur) \/ cand = cur
Better(cand, cur) == Less(cand, cur)

\* Lines 98-102: one denomination of the inner table-fill loop.
FillBody(f, coin) ==
    IF Fits(coin, f.i) /\ Better(AddOne(f.dp[f.i - coin]), f.dp[f.i])
    THEN [f EXCEPT !.dp[f.i] = AddOne(f.dp[f.i - coin]),
                   !.last_coin[f.i] = coin]
    ELSE f

\* Lines 110-112: one iteration of the reconstruction loop.
ReconBody(f) ==
    LET coin == f.last_coin[f.current_amount]
    IN  [f EXCEPT !.result = Put(f.result, coin, Get(f.result, coin, 0) + 1),
                  !.current_amount = f.current_amount - coin]

(* ------------------------------ the calls ------------------------------ *)

NewCall(kind, amount) == [kind |-> kind, amount |-> amount, pc |-> "start",
                          ret |-> EmptyMap]

\* A frame before the function has bound any local.
NewFrame == [remaining |-> 0, result |-> EmptyMap, coin_idx |-> 1,
             dp |-> EmptyMap, last_coin |-> EmptyMap, i |-> 0,
             current_amount |-> 0]

Finished(c) == c.pc \in {"done", "raised"}
Running(c) == c.pc \notin {"start", "done", "raised"}

\* One step of call c on frame f: the call and the frame after it.
\* Lines 35-41.
GreedyEnterStep(c, f) ==
    IF GreedyInvalid(c.amount)
    THEN [call |-> [c EXCEPT !.pc = "raised"], frame |-> f]
    ELSE [call |-> [c EXCEPT !.pc = "greedy_loop"],
          frame |-> [f EXCEPT !.result = EmptyMap, !.remaining = c.amount,
                              !.coin_idx = 1]]

\* Lines 44-58: one iteration of `for coin in coins`, and the return when the
\* loop breaks or runs out of denominations.
GreedyIterStep(c, f) ==
    LET g == GreedyBody(f, GreedyCoins[f.coin_idx])
    IN  IF (EarlyExit(c.kind) /\ g.remaining = 0) \/ f.coin_idx = Len(GreedyCoins)
        THEN [call |-> [c EXCEPT !.pc = "done", !.ret = g.result], frame |-> g]
        ELSE [call |-> c, frame |-> [g EXCEPT !.coin_idx = f.coin_idx + 1]]

\* Lines 105-106: the locals of the reconstruction.
ReconInit(c, f) == [f EXCEPT !.result = EmptyMap, !.current_amount = c.amount]

\* Lines 80-91, and 105-106 when range(1, amount + 1) is empty.
MinEnterStep(c, f) ==
    IF MinInvalid(c.amount)
    THEN [call |-> [c EXCEPT !.pc = "raised"], frame |-> f]
    ELSE LET g == [f EXCEPT !.dp = InitDp(c.amount),
                            !.last_coin = InitLastCoin(c.amount),
                            !.i = 1, !.coin_idx = 1]
         IN  IF c.amount >= 1
             THEN [call |-> [c EXCEPT !.pc = "fill"], frame |-> g]
             ELSE [call |-> [c EXCEPT !.pc = "recon"], frame |-> ReconInit(c, g)]

\* Lines 94-102: one iteration of the inner loop, then the next denomination,
\* the next sub-amount, or (lines 105-106) the start of the reconstruction.
MinFillStep(c, f) ==
    LET g == FillBody(f, DpCoins[f.coin_idx])
    IN  IF f.coin_idx < Len(DpCoins)
        THEN [call |-> c, frame |-> [g EXCEPT !.coin_idx = f.coin_idx + 1]]
        ELSE IF f.i < c.amount
        THEN [call |-> c, frame |-> [g EXCEPT !.i = f.i + 1, !.coin_idx = 1]]
        ELSE [call |-> [c EXCEPT !.pc = "recon"], frame |-> ReconInit(c, g)]

\* Lines 109-114: the loop test, then one iteration or the return.
MinReconStep(c, f) ==
    IF f.current_amount > 0
    THEN [call |-> c, frame |-> ReconBody(f)]
    ELSE [call |-> [c EXCEPT !.pc = "done", !.ret = f.result], frame |-> f]

(* ------------------------------- actions ------------------------------- *)

Procs == DOMAIN calls

\* Call p takes the step s; the step is interleaved when another call is
\* between its first and its last step.
Take(p, s) ==
    /\ calls' = [calls EXCEPT ![p] = s.call]
    /\ frames' = [frames EXCEPT ![Frame(p)] = s.frame]
    /\ overlapped' = (overlapped \/ \E q \in Procs \ {p} : Running(calls[q]))

GreedyEnter(p) ==
    /\ calls[p].pc = "start"
    /\ calls[p].kind \in GreedyKinds
    /\ Take(p, GreedyEnterStep(calls[p], frames[Frame(p)]))

GreedyIter(p) ==
    /\ calls[p].pc = "greedy_loop"
    /\ Take(p, GreedyIterStep(calls[p], frames[Frame(p)]))

MinEnter(p) ==
    /\ calls[p].pc = "start"
    /\ calls[p].kind = "min"
    /\ Take(p, MinEnterStep(calls[p], frames[Frame(p)]))

MinFill(p) ==
    /\ calls[p].pc = "fill"
    /\ Take(p, MinFillStep(calls[p], frames[Frame(p)]))

MinRecon(p) ==
    /\ calls[p].pc = "recon"
    /\ Take(p, MinReconStep(calls[p], frames[Frame(p)]))

Next ==
    \/ \E p \in Procs : GreedyEnter(p)
    \/ \E p \in Procs : GreedyIter(p)
    \/ \E p \in Procs : MinEnter(p)
    \/ \E p \in Procs : MinFill(p)
    \/ \E p \in Procs : MinRecon(p)

\* One invocation, of any function, with any amount from -1 to MaxAmount.
Init ==
    /\ \E kind \in Kinds, amount \in -1..MaxAmount :
           calls = <<NewCall(kind, amount)>>
    /\ frames = <<NewFrame>>
    /\ overlapped = FALSE

Spec == Init /\ [][Next]_vars

\* The interpreter always runs the next step of a call that has one.
LiveSpec == Init /\ [][Next]_vars /\ WF_vars(Next)

\* NumConcCalls invocations of the two functions, their steps interleaved.
ConcInit ==
    /\ calls \in [1..NumConcCalls ->
                    {NewCall(kind, amount) :
                        kind \in {"greedy", "min"}, amount \in -1..MaxConcAmount}]
    /\ frames = [p \in 1..NumConcCalls |-> NewFrame]
    /\ overlapped = FALSE

ConcSpec == ConcInit /\ [][Next]_vars

(* --------------------------- a call run alone -------------------------- *)

\* The step of call c at its position.
StepOf(c, f) ==
    CASE c.pc = "start" /\ c.kind \in GreedyKinds -> GreedyEnterStep(c, f)
      [] c.pc = "start" /\ c.kind = "min" -> MinEnterStep(c, f)
      [] c.pc = "greedy_loop" -> GreedyIterStep(c, f)
      [] c.pc = "fill" -> MinFillStep(c, f)
      [] c.pc = "recon" -> MinReconStep(c, f)

\* The call c run from frame f to its return or its error, nothing else
\* running.
RECURSIVE Run(_, _)
Run(c, f) ==
    IF Finished(c) THEN c
    ELSE LET s == StepOf(c, f) IN Run(s.call, s.frame)

\* What kind(amount) returns or raises when it is the only call.
Alone(kind, amount) == Run(NewCall(kind, amount), NewFrame)

(* ------------------------ vocabulary of the claims --------------------- *)

\* The denominations, as the claims name them.
Denominations == {50, 25, 10, 5, 2, 1}

RECURSIVE SumOver(_, _, _)
\* The sum of d[k] * Weight over the keys in ks, Weight being k or 1.
SumOver(d, ks, byValue) ==
    IF ks = {} THEN 0
    ELSE LET k == CHOOSE x \in ks : TRUE
         IN  (IF byValue THEN k * d[k] ELSE d[k]) + SumOver(d, ks \ {k}, byValue)

\* The number of coins of a breakdown, and the amount it adds up to.
TotalCoins(d) == SumOver(d, DOMAIN d, FALSE)
ValueOf(d) == SumOver(d, DOMAIN d, TRUE)

RECURSIVE SumsOf(_, _)
\* The amounts up to n that some multiset of exactly j coins adds up to.
SumsOf(j, n) ==
    IF j = 0 THEN {0}
    ELSE {s + d : s \in SumsOf(j - 1, n), d \in Denominations} \cap (0..n)

\* The calls of the two functions that have returned.
Returned(p) == calls[p].pc = "done" /\ calls[p].kind \in {"greedy", "min"}
MinReturned(p) == calls[p].pc = "done" /\ calls[p].kind = "min"

(* ------------------------------- claims -------------------------------- *)

\* C1: the breakdown find_min_coins returns has the least number of coins:
\* no multiset of fewer coins from the denominations adds up to the amount
\* (and the multiset of that many coins does).
C1_MinimalCount ==
    \A p \in Procs :
        MinReturned(p) =>
            LET n == calls[p].amount
                k == TotalCoins(calls[p].ret)
            IN  /\ n \in SumsOf(k, n)
                /\ \A j \in 0..(k - 1) : n \notin SumsOf(j, n)

C1_Witness ==
    \E p \in Procs :
        /\ MinReturned(p)
        /\ calls[p].amount = 99
        /\ TotalCoins(calls[p].ret) = 6

\* C2: the breakdown either function returns adds up to the amount exactly.
C2_SumIsAmount ==
    \A p \in Procs : Returned(p) => ValueOf(calls[p].ret) = calls[p].amount

C2_Witness ==
    \E p \in Procs :
        /\ Returned(p)
        /\ calls[p].kind = "greedy"
        /\ calls[p].amount = 88
        /\ ValueOf(calls[p].ret) = 88

\* C3: find_min_coins returns the mapping find_coins_greedy returns for the
\* same amount: the same keys with the same counts.
C3_GreedyEqualsMin ==
    \A p \in Procs :
        MinReturned(p) =>
            LET g == Alone("greedy", calls[p].amount)
            IN  /\ g.pc = "done"
                /\ DOMAIN calls[p].ret = DOMAIN g.ret
                /\ \A k \in DOMAIN g.ret : calls[p].ret[k] = g.ret[k]

C3_Witness ==
    \E p \in Procs :
        /\ MinReturned(p)
        /\ calls[p].amount = 68
        /\ calls[p].ret = Alone("greedy", 68).ret
        /\ Cardinality(DOMAIN calls[p].ret) = 5
\* C4: a call of either function with amount < 0 fails with the error on its
\* first step and returns no breakdown; a call with amount >= 0 never fails.
C4_RaisedIffNegative ==
    \A p \in Procs :
        calls[p].kind \in {"greedy", "min"} =>
            /\ calls[p].pc = "raised" => calls[p].amount < 0
            /\ calls[p].amount < 0 =>
                   /\ calls[p].pc \in {"start", "raised"}
                   /\ calls[p].ret = EmptyMap
                   /\ frames[p] = NewFrame

C4_FirstStepDecides ==
    \A p \in Procs :
        (calls[p].pc = "start" /\ calls'[p].pc # "start") =>
            (calls'[p].pc = "raised" <=> calls[p].amount < 0)

C4_ErrorOnNegative == [](C4_RaisedIffNegative) /\ [][C4_FirstStepDecides]_vars

C4_Witness ==
    \E p \in Procs :
        /\ calls[p].kind = "min"
        /\ calls[p].amount = -1
        /\ calls[p].pc = "raised"

\* The entries of a breakdown: denominations as keys, counts of at least 1.
WellFormed(d) ==
    \A k \in DOMAIN d : k \in Denominations /\ d[k] \in Nat /\ d[k] >= 1

\* C5: every entry of a breakdown, while it is built and when it is
\* returned, has a denomination as its key and a count >= 1: no key 0 and no
\* count 0.
C5_EntriesWellFormed ==
    \A p \in Procs : WellFormed(frames[p].result) /\ WellFormed(calls[p].ret)

C5_Witness ==
    \E p \in Procs :
        /\ MinReturned(p)
        /\ calls[p].amount = 93
        /\ DOMAIN calls[p].ret = {50, 25, 10, 5, 2, 1}
        /\ WellFormed(calls[p].ret)

\* The breakdowns the specification lists.
Expected(amount) ==
    CASE amount = 0 -> EmptyMap
      [] amount = 1 -> (1 :> 1)
      [] amount = 3 -> (2 :> 1) @@ (1 :> 1)
      [] amount = 4 -> (2 :> 2)
      [] amount = 99 -> (50 :> 1) @@ (25 :> 1) @@ (10 :> 2) @@ (2 :> 2)
      [] amount = 113 -> (50 :> 2) @@ (10 :> 1) @@ (2 :> 1) @@ (1 :> 1)

\* C6: both functions return {} for 0, {1: 1} for 1, {2: 1, 1: 1} for 3,
\* {2: 2} for 4, {50: 1, 25: 1, 10: 2, 2: 2} for 99 and
\* {50: 2, 10: 1, 2: 1, 1: 1} for 113.
C6_ListedBreakdowns ==
    \A p \in Procs :
        (Returned(p) /\ calls[p].amount \in {0, 1, 3, 4, 99, 113}) =>
            calls[p].ret = Expected(calls[p].amount)

C6_Witness ==
    \E p \in Procs :
        /\ Returned(p)
        /\ calls[p].kind = "greedy"
        /\ calls[p].amount = 113
        /\ calls[p].ret = Expected(113)

\* C7: a call whose steps are interleaved with other calls' returns, or
\* raises, exactly what it does when it runs alone.
C7_InterleavingInvisible ==
    \A p \in Procs :
        Finished(calls[p]) =>
            LET a == Alone(calls[p].kind, calls[p].amount)
            IN  calls[p].pc = a.pc /\ calls[p].ret = a.ret

C7_Witness ==
    /\ overlapped
    /\ Cardinality(Procs) >= 2
    /\ \A p \in Procs : Returned(p) /\ calls[p].amount = 3
    /\ \E p, q \in Procs : calls[p].kind = "greedy" /\ calls[q].kind = "min"
\* The calls of find_min_coins whose table-fill loops have completed.
Filled(p) == calls[p].kind = "min" /\ calls[p].pc \in {"recon", "done"}

\* The denominations that fit sub-amount i and reach it at the cost dp[i].
Achieving(f, i) ==
    {d \in Denominations : d <= i /\ f.dp[i - d] # Inf /\ f.dp[i - d] + 1 = f.dp[i]}

Largest(S) == CHOOSE d \in S : \A e \in S : e <= d

\* After the table fill, dp[i] is the least cost over the denominations that
\* fit, and last_coin[i] is the largest denomination that achieves it.
C8_FirstOfTies ==
    \A p \in Procs :
        Filled(p) =>
            \A i \in 1..calls[p].amount :
                LET f == frames[p]
                IN  /\ f.dp[i] \in Nat
                    /\ \A d \in Denominations :
                           d <= i => f.dp[i] <= f.dp[i - d] + 1
                    /\ Achieving(f, i) # {}
                    /\ f.last_coin[i] = Largest(Achieving(f, i))

\* A step that records a denomination over an earlier one lowers dp[i]: an
\* equal cost never overwrites.
C8_NoEqualOverwrite ==
    \A p \in Procs :
        (calls[p].pc = "fill" /\ calls[p].kind = "min") =>
            \A i \in 1..calls[p].amount :
                frames'[p].last_coin[i] # frames[p].last_coin[i] =>
                    /\ Less(frames'[p].dp[i], frames[p].dp[i])
                    /\ frames[p].last_coin[i] \in {0} \cup
                           {d \in Denominations : d > frames'[p].last_coin[i]}

\* C8: after the table fill, last_coin[i] is, for every sub-amount i, the
\* first denomination in the descending order that achieves the minimal
\* dp[i], and a later denomination of equal cost never overwrites it.
C8_TieBreak == [](C8_FirstOfTies) /\ [][C8_NoEqualOverwrite]_vars

\* Sub-amounts where denominations tie: 2 and 1 both reach 3 at cost 2, and
\* 5, 2 and 1 all reach 8 at cost 3.
C8_Witness ==
    \E p \in Procs :
        /\ Filled(p)
        /\ calls[p].amount >= 8
        /\ Achieving(frames[p], 3) = {2, 1}
        /\ frames[p].last_coin[3] = 2
        /\ Cardinality(Achieving(frames[p], 8)) >= 2

\* While the reconstruction has an amount left, the coin recorded for it is a
\* denomination that fits, and the amount left is never negative.
C9_ReconSafe ==
    \A p \in Procs :
        (calls[p].kind = "min" /\ calls[p].pc = "recon") =>
            LET f == frames[p]
            IN  /\ f.current_amount >= 0
                /\ f.current_amount > 0 =>
                       /\ f.last_coin[f.current_amount] \in Denominations
                       /\ f.last_coin[f.current_amount] <= f.current_amount

\* An iteration of the reconstruction lowers the amount left.
C9_ReconDecreases ==
    \A p \in Procs :
        (calls[p].kind = "min" /\ calls[p].pc = "recon"
            /\ frames[p].current_amount > 0) =>
            /\ frames'[p].current_amount < frames[p].current_amount
            /\ frames'[p].current_amount >= 0

ReconRunning == \E p \in Procs : calls[p].kind = "min" /\ calls[p].pc = "recon"

ReconEnded ==
    \A p \in Procs :
        calls[p].kind = "min" =>
            calls[p].pc = "done" /\ frames[p].current_amount = 0

\* C9: the reconstruction loop ends: each iteration takes a positive
\* denomination that fits, the amount left decreases, is never negative, and
\* reaches exactly 0, where the call returns.
C9_ReconTerminates ==
    /\ [](C9_ReconSafe)
    /\ [][C9_ReconDecreases]_vars
    /\ (ReconRunning ~> ReconEnded)

C9_Witness ==
    \E p \in Procs :
        /\ MinReturned(p)
        /\ calls[p].amount = 49
        /\ frames[p].current_amount = 0
        /\ TotalCoins(calls[p].ret) = 5

\* C10: find_coins_greedy without its early exit returns the mapping the
\* original returns, both end their loop with remaining = 0, and only the
\* number of denominations visited differs.
C10_EarlyExitOnlySkips ==
    \A p \in Procs :
        (calls[p].pc = "done" /\ calls[p].kind \in GreedyKinds) =>
            LET a == Alone("greedy", calls[p].amount)
            IN  /\ frames[p].remaining = 0
                /\ calls[p].ret = a.ret
                /\ calls[p].kind = "greedy_nobreak" =>
                       frames[p].coin_idx = Len(GreedyCoins)
                /\ calls[p].kind = "greedy" =>
                       frames[p].coin_idx <= Len(GreedyCoins)

C10_Witness ==
    \E p \in Procs :
        /\ calls[p].pc = "done"
        /\ calls[p].kind = "greedy_nobreak"
        /\ calls[p].amount = 100
        /\ calls[p].ret = (50 :> 2)
        /\ frames[p].coin_idx = 6
        /\ frames[p].remaining = 0
====
